---- MODULE Spec2Model ----
(***************************************************************************)
(* A model of tap_hubspot/__init__.py: the authenticated, retried GET      *)
(* (request), the token refresh, the pagination generator (gen_request)    *)
(* and the per-stream sync functions with their watermarks (STATE) and     *)
(* their output messages (schema, record, state).                          *)
(*                                                                         *)
(* Instants are whole seconds counted from an arbitrary base instant; the  *)
(* ISO-8601 strings the program stores ("%Y-%m-%dT%H:%M:%SZ", one fixed    *)
(* width, UTC) order exactly as the instants they denote, so a watermark   *)
(* is modelled by its instant.  The process time zone is taken to be UTC.  *)
(* An optional value (a key missing from a dict, None) is the empty tuple, *)
(* a present value x the tuple <<x>>.                                      *)
(***************************************************************************)
EXTENDS Integers, Sequences, FiniteSets, TLC

VARIABLES
    pc,             \* where the running sync function stands
    entity,         \* the stream being synced
    State,          \* STATE: stream -> watermark (optional instant)
    start_date,     \* CONFIG['start_date']
    token_expires,  \* CONFIG['token_expires'] (optional instant)
    now,            \* the clock: datetime.utcnow()
    call,           \* the request() invocation in progress, or returned last
    resp,           \* the decoded body request() returned last
    last,           \* what the last attempt of request() saw and did
    reqs,           \* every GET sent, in order
    out,            \* every message written, in order
    exit,           \* "running", "done", "sys_exit" (sys.exit(1)), "raised"
    flakyCalls,     \* request() calls that met a retryable failure so far
    api,            \* what the remote API holds
    args,           \* the inputs of the run: args.state, the stored watermarks
    cur,            \* the gen_request generator in progress
    loc             \* the locals of the running sync function

vars == <<pc, entity, State, start_date, token_expires, now, call, resp, last,
          reqs, out, exit, flakyCalls, api, args, cur, loc>>

\* what no step of the program changes
env == <<api, args>>

None == <<>>
Some(x) == <<x>>
Val(o) == o[1]

----------------------------------------------------------------------------
(* Bounds of the model.                                                    *)

\* the clock runs from 0 to MaxClock
MaxClock == 2
\* request() calls of the bare-request specification
MaxCalls == 2
\* request() calls of one run that may meet retryable failures
MaxFlakyCalls == 1
\* GETs of one run (a cursor whose offsets the API ignores never ends)
MaxRequests == 40
\* instants (of watermarks, of modifications) run from 0 to MaxInstant
MaxInstant == 3
\* entities the API holds for one of the single-request streams
MaxRows == 3
\* the watermark, the clock and the events of a chunked stream lie on the
\* half chunks 0 .. MaxHalfChunks
MaxHalfChunks == 4
\* events the API holds for a chunked stream
MaxEvents == 2
\* rows of a page of the bare cursor's endpoint
MaxPageLen == 2
\* companies, or deals, the API holds
MaxEntities == 2
\* contacts the API holds
MaxContacts == 200
\* rows every other endpoint holds in a whole run of do_sync
MaxSyncRows == 2

----------------------------------------------------------------------------
(* Program constants.                                                      *)

\* backoff.on_exception(..., max_tries=5, ...)
max_tries == 5
\* timedelta(seconds=auth['expires_in'] - 600)
RefreshMargin == 600

\* the lifetimes (expires_in) the authorization endpoint may grant
ExpiresIn == {RefreshMargin, RefreshMargin + 3600}

\* the outcomes of one HTTP exchange: no response at all, or a status
NetFail == 0
GetStatuses == {200, 404, 499, 500, 503}
RefreshStatuses == {200, 400, 503}

----------------------------------------------------------------------------
(* request() and refresh_token().                                          *)

\* as NeedsRefresh, with the comparison taken non-strict
NeedsRefreshAtExpiry(expires, t) ==
    IF expires = None THEN TRUE ELSE Val(expires) <= t

\* line 164: CONFIG['token_expires'] is None or
\*           CONFIG['token_expires'] < datetime.datetime.utcnow()
NeedsRefresh(expires, t) ==
    IF expires = None THEN TRUE ELSE Val(expires) < t

\* as giveup, for every error status
GivesUpOnAnyStatus(status) == status # NetFail /\ status >= 400

\* line 161: giveup=lambda e: e.response is not None
\*                            and 400 <= e.response.status_code < 500
\* (status NetFail stands for an exception that carries no response)
giveup(status) == status # NetFail /\ 400 <= status /\ status < 500

\* as ExitsOnStatus, for server errors alone
ExitsOnServerError(status) == status >= 500

\* line 176: if resp.status_code >= 400: ... sys.exit(1)
ExitsOnStatus(status) == status >= 400

\* resp.raise_for_status() in refresh_token raises for 4xx and 5xx
RaisesForStatus(status) == status >= 400

\* as Exhausted, one attempt late
ExhaustedLate(tries) == tries > max_tries

\* line 160: max_tries=5: no further attempt after `tries` attempts
Exhausted(tries) == tries >= max_tries

\* get_url(endpoint, **kwargs): the endpoint and the identifier that
\* fills the placeholder of its path (0 when the path has none)
get_url(endpoint, id) == [ep |-> endpoint, id |-> id]

\* tries: the attempts made; netfails: those that ended without a
\* response; sleeps: the backoff sleeps taken; refreshes: the refresh
\* exchanges posted
NoCall == [active |-> FALSE, tries |-> 0, netfails |-> 0, sleeps |-> 0,
           refreshes |-> 0, url |-> get_url("", 0), params |-> <<>>]
NoLast == [n |-> 0, expires |-> None, at |-> 0, refreshed |-> FALSE,
           refresh |-> NetFail, sent |-> FALSE, status |-> NetFail]

\* the caller's side of request(url, params): the first attempt is about
\* to run
Invoke(url, params) ==
    [active |-> TRUE, tries |-> 0, netfails |-> 0, sleeps |-> 0,
     refreshes |-> 0, url |-> url, params |-> params]

\* A retryable failure may strike a call that already met one, or a fresh
\* call while fewer than MaxFlakyCalls calls did.
MayFail == call.tries > 0 \/ flakyCalls < MaxFlakyCalls
Struck == IF call.tries = 0 THEN flakyCalls + 1 ELSE flakyCalls

\* 1 for an exchange that ended without a response, else 0
Missing(status) == IF status = NetFail THEN 1 ELSE 0

\* backoff's wrapper after request() raised a RequestException from an
\* exchange that ended with `status`, having posted `r` refresh exchanges:
\* give up (the exception propagates and ends the run), or sleep and call
\* again
Retry(status, r) ==
    IF giveup(status) \/ Exhausted(call.tries + 1)
    THEN /\ exit' = "raised"
         /\ call' = [call EXCEPT !.tries = @ + 1, !.active = FALSE,
                                 !.netfails = @ + Missing(status),
                                 !.refreshes = @ + r]
         /\ UNCHANGED flakyCalls
    ELSE /\ exit' = "running"
         /\ call' = [call EXCEPT !.tries = @ + 1,
                                 !.netfails = @ + Missing(status),
                                 !.refreshes = @ + r,
                                 !.sleeps = @ + 1]
         /\ flakyCalls' = Struck

\* the body of the response to a successful GET, given below from `api`
RECURSIVE Respond(_, _)

\* One attempt of request() in which refresh_token() is called and fails:
\* requests.post raises (NetFail) or raise_for_status raises (4xx, 5xx).
\* CONFIG is left as it was and no GET is sent.
AttemptRefreshFails ==
    /\ exit = "running" /\ call.active
    /\ NeedsRefresh(token_expires, now)
    /\ \E s \in {NetFail} \cup {x \in RefreshStatuses : RaisesForStatus(x)} :
          /\ giveup(s) \/ MayFail
          /\ last' = [n |-> call.tries + 1, expires |-> token_expires,
                      at |-> now, refreshed |-> TRUE, refresh |-> s,
                      sent |-> FALSE, status |-> NetFail]
          /\ Retry(s, 1)
    /\ UNCHANGED <<pc, entity, State, start_date, token_expires, now, resp,
                   reqs, out, env, cur, loc>>

\* One attempt of request() that reaches session.send: the token is
\* refreshed first when line 164 says so, then the GET is sent and ends
\* with no response (a RequestException), with a status >= 400
\* (sys.exit(1)) or with a body (returned).
AttemptGet ==
    /\ exit = "running" /\ call.active
    /\ Len(reqs) < MaxRequests
    /\ LET need == NeedsRefresh(token_expires, now)
           r == IF need THEN 1 ELSE 0
       IN
       \E e \in ExpiresIn, s \in {NetFail} \cup GetStatuses :
          /\ need \/ e = RefreshMargin
          /\ token_expires' = IF need THEN Some(now + e - RefreshMargin)
                              ELSE token_expires
          /\ reqs' = Append(reqs, [url |-> call.url, params |-> call.params])
          /\ last' = [n |-> call.tries + 1, expires |-> token_expires,
                      at |-> now, refreshed |-> need, refresh |-> 200,
                      sent |-> TRUE, status |-> s]
          /\ IF s = NetFail
             THEN /\ MayFail
                  /\ Retry(s, r)
                  /\ UNCHANGED resp
             ELSE IF ExitsOnStatus(s)
             THEN /\ exit' = "sys_exit"
                  /\ call' = [call EXCEPT !.tries = @ + 1, !.active = FALSE,
                                          !.refreshes = @ + r]
                  /\ UNCHANGED <<resp, flakyCalls>>
             ELSE /\ call' = [call EXCEPT !.tries = @ + 1, !.active = FALSE,
                                          !.refreshes = @ + r]
                  /\ resp' = Respond(call.url, call.params)
                  /\ UNCHANGED <<exit, flakyCalls>>
    /\ UNCHANGED <<pc, entity, State, start_date, now, out, env, cur, loc>>

\* time passes (while an exchange is under way, during a backoff sleep,
\* between two statements)
Tick ==
    /\ exit = "running"
    /\ now < MaxClock
    /\ now' = now + 1
    /\ UNCHANGED <<pc, entity, State, start_date, token_expires, call, resp,
                   last, reqs, out, exit, flakyCalls, env,
                   cur, loc>>

----------------------------------------------------------------------------
(* The watermarks and the output messages.                                 *)

Streams == {"subscription_changes", "email_events", "forms", "workflows",
            "keywords", "owners", "campaigns", "contact_lists", "contacts",
            "companies", "deals"}

Instants == 0 .. MaxInstant

\* get_start(key): the watermark of `key`, seeded from start_date
SeededState(key) ==
    IF State[key] = None THEN [State EXCEPT ![key] = Some(start_date)]
    ELSE State

get_start(key) == Val(SeededState(key)[key])

\* utils.update_state(state, entity, dt): the store sets the watermark to
\* the instant it is given and does not compare it with the one it holds;
\* without an instant (None) it leaves the store alone
update_state(state, key, dt) ==
    IF dt = None THEN state ELSE [state EXCEPT ![key] = dt]

NoRow == [id |-> 0, mtime |-> None]

\* singer.write_schema, singer.write_record, singer.write_state
SchemaMsg(stream) ==
    [kind |-> "schema", stream |-> stream, row |-> NoRow, marks |-> <<>>]
RecordMsg(stream, row) ==
    [kind |-> "record", stream |-> stream, row |-> row, marks |-> <<>>]
StateMsg(stream, state) ==
    [kind |-> "state", stream |-> stream, row |-> NoRow, marks |-> state]

----------------------------------------------------------------------------
(* The remote API.                                                         *)

\* every list of at most n rows, numbered in order, with the given
\* modification instants
RowLists(n, mtimes) ==
    UNION {[1 .. k -> mtimes] : k \in 0 .. n}
Numbered(ms) == [i \in 1 .. Len(ms) |-> [id |-> i, mtime |-> ms[i]]]

SimpleStreams == {"forms", "workflows", "keywords", "owners"}

Min(a, b) == IF a < b THEN a ELSE b

\* the names under which each paginated endpoint returns its entity list
\* and its continuation flag
ApiShape(ep) ==
    CASE ep \in {"contacts_all", "contacts_recent"} ->
             [path |-> "contacts", more |-> "has-more"]
      [] ep = "companies_all" -> [path |-> "companies", more |-> "has-more"]
      [] ep = "companies_recent" -> [path |-> "results", more |-> "hasMore"]
      [] ep \in {"deals_all", "deals_recent"} ->
             [path |-> "deals", more |-> "hasMore"]
      [] ep = "campaigns_all" -> [path |-> "campaigns", more |-> "hasMore"]
      [] ep = "contact_lists" -> [path |-> "lists", more |-> "has-more"]
      [] ep = "subscription_changes" ->
             [path |-> "timeline", more |-> "hasMore"]
      [] ep = "email_events" -> [path |-> "events", more |-> "hasMore"]
      [] OTHER -> [path |-> "rows", more |-> "hasMore"]

\* the position a page request asks for: the offset parameter it carries
ServerOffset(params) ==
    IF "offset" \in DOMAIN params THEN params["offset"]
    ELSE IF "vidOffset" \in DOMAIN params THEN params["vidOffset"]
    ELSE 0

\* the time offset the API echoes beside the position `off`
TimeOffset(off) == 1000 + off

\* one page of `list` from the position asked for: api.pagelen rows at
\* most, the continuation flag and the offsets of the next page
Page(ep, list, params) ==
    LET off == ServerOffset(params)
        hi == Min(off + api.pagelen, Len(list))
    IN  (ApiShape(ep).path :> SubSeq(list, off + 1, hi))
        @@ (ApiShape(ep).more :> (hi < Len(list)))
        @@ ("offset" :> hi) @@ ("vid-offset" :> hi)
        @@ ("time-offset" :> TimeOffset(hi))

PagedEndpoints ==
    {"paged", "contacts_all", "contacts_recent", "companies_all",
     "companies_recent", "deals_all", "deals_recent", "campaigns_all",
     "contact_lists"}

\* the contacts the API holds: a list of their own, or the common rows
ContactsOf(a) == IF "contacts" \in DOMAIN a THEN a.contacts ELSE a.rows

\* the entities the endpoint `ep` lists
Listed(ep) ==
    IF ep \in {"contacts_all", "contacts_recent"} THEN ContactsOf(api)
    ELSE api.rows

PropertiesEndpoints ==
    {"contacts_properties", "companies_properties", "deals_properties"}

\* the entity of `list` with identifier id
Find(list, id) ==
    LET found == SelectSeq(list, LAMBDA row : row.id = id)
    IN  IF found = <<>> THEN NoRow ELSE Head(found)

\* the answer of the contacts batch endpoint: the contacts asked for, in
\* the order asked
Batch(list, vids) == [i \in 1 .. Len(vids) |-> Find(list, vids[i])]

ChunkedStreams == {"subscription_changes", "email_events"}

\* the events of `list` inside the window the request asks for
InWindow(list, params) ==
    LET Inside(row) ==
            /\ params.startTimestamp <= Val(row.mtime) * 1000
            /\ Val(row.mtime) * 1000 < params.endTimestamp
    IN  SelectSeq(list, Inside)

Respond(url, params) ==
    IF url.ep \in SimpleStreams THEN api.rows
    ELSE IF url.ep \in PagedEndpoints THEN Page(url.ep, Listed(url.ep), params)
    ELSE IF url.ep \in ChunkedStreams
    THEN Page(url.ep, InWindow(api.rows, params), params)
    ELSE IF url.ep \in {"companies_detail", "deals_detail",
                         "campaigns_detail"}
    THEN Find(api.rows, url.id)
    ELSE IF url.ep = "contacts_detail"
    THEN Batch(ContactsOf(api), params.vid)
    ELSE <<>>

----------------------------------------------------------------------------
(* gen_request: the generator a `for row in gen_request(...)` loop drives. *)
(* The caller stands at pc = "for"; cur.buf holds the rows of the page     *)
(* fetched last that the loop has not taken yet.                           *)

\* an argument that is a list, or a single value
List(items) == [list |-> TRUE, val |-> items]
Single(x) == [list |-> FALSE, val |-> x]

\* lines 184-188: if not isinstance(x, list): x = [x]
AsList(x) == IF x.list THEN x.val ELSE <<x.val>>

\* as OffsetMismatch, with the check left out
OffsetMismatchUnchecked(keys, targets) == FALSE

\* line 190: len(offset_keys) != len(offset_targets)
OffsetMismatch(keys, targets) == Len(AsList(keys)) # Len(AsList(targets))

\* as Advance, for the first pair alone
AdvanceFirstPair(params, data, keys, targets) ==
    IF keys = <<>> \/ targets = <<>> THEN params
    ELSE (Head(targets) :> data[Head(keys)]) @@ params

\* lines 202-203: for key, target in zip(offset_keys, offset_targets):
\*                    params[target] = data[key]
RECURSIVE Advance(_, _, _, _)
Advance(params, data, keys, targets) ==
    IF keys = <<>> \/ targets = <<>> THEN params
    ELSE Advance((Head(targets) :> data[Head(keys)]) @@ params, data,
                 Tail(keys), Tail(targets))

\* as More, with the continuation flag taken for true
MoreAlways(data, more_key) == TRUE

\* line 199: data.get(more_key, False)
More(data, more_key) ==
    IF more_key \in DOMAIN data THEN data[more_key] ELSE FALSE

NoGen == [state |-> "none", url |-> get_url("", 0), params |-> <<>>, path |-> None,
          more_key |-> "", offset_keys |-> List(<<>>),
          offset_targets |-> List(<<>>), buf |-> <<>>, data |-> <<>>]

\* gen_request(url, params, path, more_key, offset_keys, offset_targets):
\* the generator object, whose body has not started
gen_request(url, params, path, more_key, keys, targets) ==
    [state |-> "new", url |-> url, params |-> params, path |-> path,
     more_key |-> more_key, offset_keys |-> keys, offset_targets |-> targets,
     buf |-> <<>>, data |-> <<>>]

\* The loop asks for a row and the generator holds none: on its first
\* resumption it checks the offset arguments (ValueError) and calls
\* request; later it ends when the page fetched last carried no true
\* continuation flag, and otherwise advances the offsets and calls request.
GenResume ==
    /\ exit = "running" /\ ~call.active
    /\ pc = "for"
    /\ cur.buf = <<>>
    /\ \/ /\ cur.state = "new"
          /\ IF OffsetMismatch(cur.offset_keys, cur.offset_targets)
             THEN /\ exit' = "raised"
                  /\ cur' = [cur EXCEPT !.state = "raised"]
                  /\ UNCHANGED call
             ELSE /\ call' = Invoke(cur.url, cur.params)
                  /\ cur' = [cur EXCEPT !.state = "waiting"]
                  /\ UNCHANGED exit
       \/ /\ cur.state = "paged"
          /\ IF cur.path = None \/ ~More(cur.data, cur.more_key)
             THEN /\ cur' = [cur EXCEPT !.state = "stopped"]
                  /\ UNCHANGED call
             ELSE LET p == Advance(cur.params, cur.data,
                                   AsList(cur.offset_keys),
                                   AsList(cur.offset_targets))
                  IN  /\ call' = Invoke(cur.url, p)
                      /\ cur' = [cur EXCEPT !.state = "waiting",
                                            !.params = p]
          /\ UNCHANGED exit
    /\ UNCHANGED <<pc, entity, State, start_date, token_expires, now, resp,
                   last, reqs, out, flakyCalls, env, loc>>

\* line 194: data = request(url, params).json() returned; the rows to
\* yield are data[path], or every element of data when no path is given
GenReceive ==
    /\ exit = "running" /\ ~call.active
    /\ pc = "for"
    /\ cur.state = "waiting"
    /\ cur' = [cur EXCEPT !.state = "paged", !.data = resp,
                          !.buf = IF cur.path = None THEN resp
                                  ELSE resp[Val(cur.path)]]
    /\ call' = NoCall
    /\ last' = NoLast
    /\ UNCHANGED <<pc, entity, State, start_date, token_expires, now, resp,
                   reqs, out, exit, flakyCalls, env, loc>>

----------------------------------------------------------------------------
(* A bare driver of gen_request: a loop that takes every row the generator *)
(* yields, for any offset arguments, over a paginated endpoint (with a     *)
(* path) or over an endpoint that returns one list (without).              *)

OffsetArgs ==
    {Single("offset"), List(<<>>), List(<<"offset">>),
     List(<<"vid-offset", "time-offset">>)}
TargetArgs ==
    {Single("offset"), List(<<>>), List(<<"offset">>),
     List(<<"vidOffset", "timeOffset">>)}

InitGen ==
    /\ pc = "for"
    /\ entity = "paged"
    /\ args = [state |-> [s \in Streams |-> None]]
    /\ State = args.state
    /\ start_date = 0
    /\ token_expires = None
    /\ now = 0
    /\ call = NoCall
    /\ resp = <<>>
    /\ last = NoLast
    /\ reqs = <<>>
    /\ out = <<>>
    /\ exit = "running"
    /\ flakyCalls = 0
    /\ \E ms \in RowLists(MaxRows, {None}), n \in 1 .. MaxPageLen :
          api = [rows |-> Numbered(ms), pagelen |-> n]
    /\ \E keys \in OffsetArgs, targets \in TargetArgs,
          path \in {None, Some("rows")}, more_key \in {"hasMore", "has-more"} :
          cur = gen_request(get_url(IF path = None THEN "forms"
                                    ELSE "paged", 0),
                            [count |-> 2], path, more_key, keys, targets)
    /\ loc = [rows |-> <<>>]

\* the body of the loop: the row is taken
GenTake ==
    /\ exit = "running" /\ ~call.active
    /\ pc = "for" /\ entity = "paged"
    /\ cur.buf # <<>>
    /\ loc' = [loc EXCEPT !.rows = Append(@, Head(cur.buf))]
    /\ cur' = [cur EXCEPT !.buf = Tail(@)]
    /\ UNCHANGED <<pc, entity, State, start_date, token_expires, now, call,
                   resp, last, reqs, out, exit, flakyCalls, env>>

\* the generator is exhausted: the loop ends
GenDone ==
    /\ exit = "running" /\ ~call.active
    /\ pc = "for" /\ entity = "paged"
    /\ cur.state = "stopped"
    /\ pc' = "return"
    /\ UNCHANGED <<entity, State, start_date, token_expires, now, call, resp,
                   last, reqs, out, exit, flakyCalls, env,
                   cur, loc>>

NextGen ==
    GenResume \/ GenReceive \/ GenTake \/ GenDone \/ AttemptRefreshFails
    \/ AttemptGet

SpecGen == InitGen /\ [][NextGen]_vars

----------------------------------------------------------------------------
(* sync_forms, sync_workflows, sync_keywords, sync_owners: one request,    *)
(* the rows filtered against the watermark read at the start, one state    *)
(* message at the end.                                                     *)

\* as SimpleEmits, with the comparison taken strict
SimpleEmitsAfter(row, start) == Val(row.mtime) > start

\* line 437: if record['updatedAt'] >= start
\* (forms 392, workflows 407, keywords 422 with created_at)
SimpleEmits(row, start) == Val(row.mtime) >= start

\* write_schema, get_start, then request(get_url(stream)) is called
SimpleBegin ==
    /\ exit = "running" /\ ~call.active
    /\ pc = "simple_begin"
    /\ out' = Append(out, SchemaMsg(entity))
    /\ State' = SeededState(entity)
    /\ loc' = [start |-> get_start(entity), rows |-> <<>>]
    /\ call' = Invoke(get_url(entity, 0), <<>>)
    /\ pc' = "simple_data"
    /\ UNCHANGED <<entity, start_date, token_expires, now, resp, last, reqs,
                   exit, flakyCalls, env, cur>>

\* data = request(...).json() returned: the loop over its rows starts
SimpleData ==
    /\ exit = "running" /\ ~call.active
    /\ pc = "simple_data"
    /\ loc' = [loc EXCEPT !.rows = resp]
    /\ pc' = "simple_rows"
    /\ call' = NoCall
    /\ last' = NoLast
    /\ UNCHANGED <<entity, State, start_date, token_expires, now, resp, reqs,
                   out, exit, flakyCalls, env, cur>>

\* one turn of the loop: the row is written and the watermark set to its
\* instant when line 437 lets it through
SimpleRow ==
    /\ exit = "running" /\ ~call.active
    /\ pc = "simple_rows"
    /\ loc.rows # <<>>
    /\ LET row == Head(loc.rows) IN
          IF SimpleEmits(row, loc.start)
          THEN /\ out' = Append(out, RecordMsg(entity, row))
               /\ State' = update_state(State, entity, row.mtime)
          ELSE UNCHANGED <<out, State>>
    /\ loc' = [loc EXCEPT !.rows = Tail(@)]
    /\ UNCHANGED <<pc, entity, start_date, token_expires, now, call, resp,
                   last, reqs, exit, flakyCalls, env, cur>>

\* as SimpleEnd, without the state message
SimpleEndSilent ==
    /\ exit = "running" /\ ~call.active
    /\ pc = "simple_rows"
    /\ loc.rows = <<>>
    /\ pc' = "return"
    /\ UNCHANGED <<entity, State, start_date, token_expires, now, call, resp,
                   last, reqs, out, exit, flakyCalls, env, cur, loc>>

\* after the loop: singer.write_state(STATE)
SimpleEnd ==
    /\ exit = "running" /\ ~call.active
    /\ pc = "simple_rows"
    /\ loc.rows = <<>>
    /\ out' = Append(out, StateMsg(entity, State))
    /\ pc' = "return"
    /\ UNCHANGED <<entity, State, start_date, token_expires, now, call, resp,
                   last, reqs, exit, flakyCalls, env, cur,
                   loc>>

\* the watermark a run may start from for `stream`: none stored (the
\* stream is seeded from start_date) or any instant
InitWatermark(stream) ==
    \E w \in {None} \cup {Some(t) : t \in Instants} :
       /\ args = [state |-> [s \in Streams |->
                                IF s = stream THEN w ELSE None]]
       /\ State = args.state
       /\ IF w = None THEN start_date \in Instants ELSE start_date = 0

InitSimpleOf(streams) ==
    /\ pc = "simple_begin"
    /\ entity \in streams
    /\ InitWatermark(entity)
    /\ token_expires = None
    /\ now = 0
    /\ call = NoCall
    /\ resp = <<>>
    /\ last = NoLast
    /\ reqs = <<>>
    /\ out = <<>>
    /\ exit = "running"
    /\ flakyCalls = 0
    /\ \E ms \in RowLists(MaxRows, {Some(t) : t \in Instants}) :
          api = [rows |-> Numbered(ms)]
    /\ cur = <<>>
    /\ loc = <<>>

InitSimple == InitSimpleOf(SimpleStreams)
InitOwners == InitSimpleOf({"owners"})

NextSimple ==
    SimpleBegin \/ SimpleData \/ SimpleRow \/ SimpleEnd
    \/ AttemptRefreshFails \/ AttemptGet

SpecSimple == InitSimple /\ [][NextSimple]_vars
SpecOwners == InitOwners /\ [][NextSimple]_vars

----------------------------------------------------------------------------
(* sync_entity_chunked: subscription_changes and email_events, fetched     *)
(* window by window from the watermark to the instant the sync started.    *)

\* lines 16-19: CHUNK_SIZES, in milliseconds
CHUNK_SIZES(entity_name) ==
    IF entity_name = "email_events" THEN 1000 * 60 * 60
    ELSE 1000 * 60 * 60 * 24

\* the path of the entity list (lines 365 and 369)
ChunkedPath(entity_name) ==
    IF entity_name = "email_events" THEN "events" ELSE "timeline"

\* line 349: end_ts = start_ts + CHUNK_SIZES[entity_name]
WindowEnd(entity_name, start_ts) == start_ts + CHUNK_SIZES(entity_name)

\* as WindowDue, with the comparison taken non-strict
WindowDueAtNow(start_ts, now_ts) == start_ts <= now_ts

\* line 348: while start_ts < now_ts
WindowDue(start_ts, now_ts) == start_ts < now_ts

\* lines 340-345: write_schema, get_start, now_ts and start_ts in
\* milliseconds
ChunkedBegin ==
    /\ exit = "running" /\ ~call.active
    /\ pc = "chunked_begin"
    /\ out' = Append(out, SchemaMsg(entity))
    /\ State' = SeededState(entity)
    /\ loc' = [start |-> get_start(entity), now_ts |-> now * 1000,
               start_ts |-> get_start(entity) * 1000, end_ts |-> 0]
    /\ pc' = "chunked_while"
    /\ UNCHANGED <<entity, start_date, token_expires, now, call, resp, last,
                   reqs, exit, flakyCalls, env, cur>>

\* lines 348-355: the loop goes on: the window and its cursor are made
ChunkedWindow ==
    /\ exit = "running" /\ ~call.active
    /\ pc = "chunked_while"
    /\ WindowDue(loc.start_ts, loc.now_ts)
    /\ LET end_ts == WindowEnd(entity, loc.start_ts) IN
          /\ loc' = [loc EXCEPT !.end_ts = end_ts]
          /\ cur' = gen_request(get_url(entity, 0),
                                [startTimestamp |-> loc.start_ts,
                                 endTimestamp |-> end_ts, limit |-> 1000],
                                Some(ChunkedPath(entity)), "hasMore",
                                Single("offset"), Single("offset"))
    /\ pc' = "for"
    /\ UNCHANGED <<entity, State, start_date, token_expires, now, call, resp,
                   last, reqs, out, exit, flakyCalls, env>>

\* lines 356-357: one row of the window is written
ChunkedRow ==
    /\ exit = "running" /\ ~call.active
    /\ pc = "for" /\ entity \in ChunkedStreams
    /\ cur.buf # <<>>
    /\ out' = Append(out, RecordMsg(entity, Head(cur.buf)))
    /\ cur' = [cur EXCEPT !.buf = Tail(@)]
    /\ UNCHANGED <<pc, entity, State, start_date, token_expires, now, call,
                   resp, last, reqs, exit, flakyCalls, env, loc>>

\* lines 359-361: the window is done: the watermark is set to its end,
\* the state is written and the next window starts where this one ended
ChunkedWindowEnd ==
    /\ exit = "running" /\ ~call.active
    /\ pc = "for" /\ entity \in ChunkedStreams
    /\ cur.state = "stopped"
    /\ LET st == update_state(State, entity, Some(loc.end_ts \div 1000)) IN
          /\ State' = st
          /\ out' = Append(out, StateMsg(entity, st))
    /\ loc' = [loc EXCEPT !.start_ts = loc.end_ts]
    /\ cur' = NoGen
    /\ pc' = "chunked_while"
    /\ UNCHANGED <<entity, start_date, token_expires, now, call, resp, last,
                   reqs, exit, flakyCalls, env>>

\* line 348: the loop ends
ChunkedEnd ==
    /\ exit = "running" /\ ~call.active
    /\ pc = "chunked_while"
    /\ ~WindowDue(loc.start_ts, loc.now_ts)
    /\ pc' = "return"
    /\ UNCHANGED <<entity, State, start_date, token_expires, now, call, resp,
                   last, reqs, out, exit, flakyCalls, env, cur, loc>>

\* half a chunk of `stream`, in seconds
HalfChunk(stream) == CHUNK_SIZES(stream) \div 2000

\* the lists of at most n events at the instants `ts`, oldest first
EventLists(n, ts) ==
    {ms \in RowLists(n, {Some(t) : t \in ts}) :
        \A i \in 1 .. Len(ms) - 1 : Val(ms[i]) <= Val(ms[i + 1])}

\* a chunked stream is synced at the instant b half chunks after the
\* base instant, from a watermark (stored, or seeded from start_date) a
\* half chunks after it; the API holds events no later than the clock
InitChunked ==
    /\ pc = "chunked_begin"
    /\ entity \in ChunkedStreams
    /\ \E a \in 0 .. MaxHalfChunks, stored \in BOOLEAN :
          /\ args = [state |-> [s \in Streams |->
                        IF s = entity /\ stored
                        THEN Some(a * HalfChunk(entity)) ELSE None]]
          /\ start_date = IF stored THEN 0 ELSE a * HalfChunk(entity)
    /\ State = args.state
    /\ token_expires = None
    /\ now \in {b * HalfChunk(entity) : b \in 0 .. MaxHalfChunks}
    /\ call = NoCall
    /\ resp = <<>>
    /\ last = NoLast
    /\ reqs = <<>>
    /\ out = <<>>
    /\ exit = "running"
    /\ flakyCalls = 0
    /\ \E ms \in EventLists(MaxEvents,
                            {c * HalfChunk(entity) : c \in 0 .. MaxHalfChunks}) :
          /\ \A i \in 1 .. Len(ms) : Val(ms[i]) <= now
          /\ api = [rows |-> Numbered(ms), pagelen |-> 1]
    /\ cur = NoGen
    /\ loc = <<>>

NextChunked ==
    ChunkedBegin \/ ChunkedWindow \/ ChunkedRow \/ ChunkedWindowEnd
    \/ ChunkedEnd \/ GenResume \/ GenReceive \/ AttemptRefreshFails
    \/ AttemptGet

SpecChunked == InitChunked /\ [][NextChunked]_vars

\* the same sync while time passes: once the loop has captured the
\* instant, the clock moves on by half a chunk
ClockRuns ==
    /\ exit = "running"
    /\ pc # "chunked_begin"
    /\ now * 1000 = loc.now_ts
    /\ now < MaxHalfChunks * HalfChunk(entity)
    /\ now' = now + HalfChunk(entity)
    /\ UNCHANGED <<pc, entity, State, start_date, token_expires, call, resp,
                   last, reqs, out, exit, flakyCalls, env, cur, loc>>

\* a run from a stored watermark, in which no request is answered by a
\* failure that a retry would cure
InitChunkedClock ==
    /\ pc = "chunked_begin"
    /\ entity \in ChunkedStreams
    /\ \E a \in 0 .. MaxHalfChunks :
          args = [state |-> [s \in Streams |->
                     IF s = entity THEN Some(a * HalfChunk(entity)) ELSE None]]
    /\ start_date = 0
    /\ State = args.state
    /\ token_expires = None
    /\ now \in {b * HalfChunk(entity) : b \in 0 .. MaxHalfChunks}
    /\ call = NoCall
    /\ resp = <<>>
    /\ last = NoLast
    /\ reqs = <<>>
    /\ out = <<>>
    /\ exit = "running"
    /\ flakyCalls = MaxFlakyCalls
    /\ \E ms \in EventLists(MaxEvents,
                            {c * HalfChunk(entity) : c \in 0 .. MaxHalfChunks}) :
          /\ \A i \in 1 .. Len(ms) : Val(ms[i]) <= now
          /\ api = [rows |-> Numbered(ms), pagelen |-> 1]
    /\ cur = NoGen
    /\ loc = <<>>

NextChunkedClock == NextChunked \/ ClockRuns

SpecChunkedClock == InitChunkedClock /\ [][NextChunkedClock]_vars

----------------------------------------------------------------------------
(* The choice between the full and the recent endpoint.                    *)

\* timedelta.days of (utcnow() - last_sync): whole days, rounded down
days_since_sync(t, last_sync) == (t - last_sync) \div 86400

\* as FullSync, with the thirtieth day included
FullSyncFrom30(t, last_sync) == days_since_sync(t, last_sync) >= 30

\* lines 215, 260, 299: if days_since_sync > 30
FullSync(t, last_sync) == days_since_sync(t, last_sync) > 30

----------------------------------------------------------------------------
(* sync_companies and sync_deals: the properties request of load_schema,   *)
(* the listing, one detail request per listed row, the filter against the  *)
(* watermark read at the start, and a state message when i % 250 = 0.      *)

MasterStreams == {"companies", "deals"}

\* lines 260-271 and 299-309: the endpoint and the arguments of the cursor
MasterCursor(stream, full) ==
    IF stream = "companies"
    THEN IF full
         THEN gen_request(get_url("companies_all", 0), [count |-> 250],
                          Some("companies"), "has-more", List(<<"offset">>),
                          List(<<"offset">>))
         ELSE gen_request(get_url("companies_recent", 0), [count |-> 250],
                          Some("results"), "hasMore", List(<<"offset">>),
                          List(<<"offset">>))
    ELSE gen_request(get_url(IF full THEN "deals_all" ELSE "deals_recent", 0),
                     [count |-> 250], Some("deals"), "hasMore",
                     Single("offset"), Single("offset"))

\* lines 288, 319: if not modified_time or modified_time >= last_sync
MasterEmits(record, last_sync) ==
    IF record.mtime = None THEN TRUE ELSE Val(record.mtime) >= last_sync

\* lines 292, 323: if i % 250 == 0
CheckpointDue(i) == i % 250 = 0

\* get_start, the choice of the endpoint, then load_schema calls
\* request(get_url(stream + "_properties"))
MasterBegin ==
    /\ exit = "running" /\ ~call.active
    /\ pc = "master_begin"
    /\ State' = SeededState(entity)
    /\ loc' = [last_sync |-> get_start(entity),
               full |-> FullSync(now, get_start(entity)), i |-> 0]
    /\ call' = Invoke(get_url(IF entity = "companies"
                              THEN "companies_properties"
                              ELSE "deals_properties", 0), <<>>)
    /\ pc' = "master_schema"
    /\ UNCHANGED <<entity, start_date, token_expires, now, resp, last, reqs,
                   out, exit, flakyCalls, env, cur>>

\* the schema is complete: write_schema, then the cursor is made
MasterSchema ==
    /\ exit = "running" /\ ~call.active
    /\ pc = "master_schema"
    /\ out' = Append(out, SchemaMsg(entity))
    /\ cur' = MasterCursor(entity, loc.full)
    /\ pc' = "for"
    /\ call' = NoCall
    /\ last' = NoLast
    /\ UNCHANGED <<entity, State, start_date, token_expires, now, resp, reqs,
                   exit, flakyCalls, env, loc>>

\* lines 279, 310: the loop takes a row and asks for its detail
MasterRow ==
    /\ exit = "running" /\ ~call.active
    /\ pc = "for" /\ entity \in MasterStreams
    /\ cur.buf # <<>>
    /\ call' = Invoke(get_url(IF entity = "companies" THEN "companies_detail"
                              ELSE "deals_detail", Head(cur.buf).id), <<>>)
    /\ last' = NoLast
    /\ cur' = [cur EXCEPT !.buf = Tail(@)]
    /\ pc' = "master_detail"
    /\ UNCHANGED <<entity, State, start_date, token_expires, now, resp, reqs,
                   out, exit, flakyCalls, env, loc>>

\* lines 280-293, 311-324: the detail came back: the record is written and
\* the watermark set to its instant when the filter lets it through, and
\* the state is written when the index of the row is a multiple of 250
MasterDetail ==
    /\ exit = "running" /\ ~call.active
    /\ pc = "master_detail"
    /\ LET record == resp
           emits == MasterEmits(record, loc.last_sync)
           st == IF emits THEN update_state(State, entity, record.mtime)
                 ELSE State
           o1 == IF emits THEN Append(out, RecordMsg(entity, record))
                 ELSE out
       IN  /\ State' = st
           /\ out' = IF CheckpointDue(loc.i) THEN Append(o1, StateMsg(entity, st))
                     ELSE o1
    /\ loc' = [loc EXCEPT !.i = @ + 1]
    /\ pc' = "for"
    /\ call' = NoCall
    /\ last' = NoLast
    /\ UNCHANGED <<entity, start_date, token_expires, now, resp, reqs, exit,
                   flakyCalls, env, cur>>

\* the cursor is exhausted: the function returns
MasterEnd ==
    /\ exit = "running" /\ ~call.active
    /\ pc = "for" /\ entity \in MasterStreams
    /\ cur.state = "stopped"
    /\ pc' = "return"
    /\ UNCHANGED <<entity, State, start_date, token_expires, now, call, resp,
                   last, reqs, out, exit, flakyCalls, env, cur, loc>>

\* the clock of a run over entities modified at the instants Instants: at
\* the last of them, or 31 days and a second after the first
Clocks == {MaxInstant, 31 * 86400 + 1}

InitMaster ==
    /\ pc = "master_begin"
    /\ entity \in MasterStreams
    /\ InitWatermark(entity)
    /\ token_expires = None
    /\ now \in Clocks
    /\ call = NoCall
    /\ resp = <<>>
    /\ last = NoLast
    /\ reqs = <<>>
    /\ out = <<>>
    /\ exit = "running"
    /\ flakyCalls = 0
    /\ \E ms \in RowLists(MaxEntities, {None} \cup {Some(t) : t \in Instants}) :
          api = [rows |-> Numbered(ms), pagelen |-> 1]
    /\ cur = NoGen
    /\ loc = <<>>

NextMaster ==
    MasterBegin \/ MasterSchema \/ MasterRow \/ MasterDetail \/ MasterEnd
    \/ GenResume \/ GenReceive \/ AttemptRefreshFails \/ AttemptGet

SpecMaster == InitMaster /\ [][NextMaster]_vars

----------------------------------------------------------------------------
(* sync_contacts: the properties request of load_schema, the listing, the  *)
(* filter of the listed rows against the watermark read at the start, one  *)
(* detail request per 100 vids kept, and a state message at the end.       *)

\* lines 215-222: the endpoint and the arguments of the cursor
ContactsCursor(full) ==
    IF full
    THEN gen_request(get_url("contacts_all", 0),
                     [showListMemberships |-> TRUE, count |-> 100],
                     Some("contacts"), "has-more", List(<<"vid-offset">>),
                     List(<<"vidOffset">>))
    ELSE gen_request(get_url("contacts_recent", 0),
                     [showListMemberships |-> TRUE, count |-> 100],
                     Some("contacts"), "has-more",
                     List(<<"vid-offset", "time-offset">>),
                     List(<<"vidOffset", "timeOffset">>))

\* line 238: if not modified_time or modified_time >= last_sync
ContactKept(row, last_sync) ==
    IF row.mtime = None THEN TRUE ELSE Val(row.mtime) >= last_sync

\* line 241: if len(vids) == 100
BatchFull(vids) == Len(vids) = 100

\* get_start, the choice of the endpoint, then load_schema calls
\* request(get_url("contacts_properties"))
ContactsBegin ==
    /\ exit = "running" /\ ~call.active
    /\ pc = "contacts_begin"
    /\ State' = SeededState("contacts")
    /\ loc' = [last_sync |-> get_start("contacts"),
               full |-> FullSync(now, get_start("contacts")), vids |-> <<>>,
               records |-> <<>>]
    /\ call' = Invoke(get_url("contacts_properties", 0), <<>>)
    /\ pc' = "contacts_schema"
    /\ UNCHANGED <<entity, start_date, token_expires, now, resp, last, reqs,
                   out, exit, flakyCalls, env, cur>>

\* the schema is complete: write_schema, then the cursor is made
ContactsSchema ==
    /\ exit = "running" /\ ~call.active
    /\ pc = "contacts_schema"
    /\ out' = Append(out, SchemaMsg("contacts"))
    /\ cur' = ContactsCursor(loc.full)
    /\ pc' = "for"
    /\ call' = NoCall
    /\ last' = NoLast
    /\ UNCHANGED <<entity, State, start_date, token_expires, now, resp, reqs,
                   exit, flakyCalls, env, loc>>

\* lines 234-242: the loop takes a row, keeps its vid when the filter lets
\* it through, and asks for the details of the vids kept once they are 100
ContactsRow ==
    /\ exit = "running" /\ ~call.active
    /\ pc = "for" /\ entity = "contacts"
    /\ cur.buf # <<>>
    /\ LET row == Head(cur.buf)
           vids == IF ContactKept(row, loc.last_sync)
                   THEN Append(loc.vids, row.id) ELSE loc.vids
       IN  /\ loc' = [loc EXCEPT !.vids = vids]
           /\ IF BatchFull(vids)
              THEN /\ call' = Invoke(get_url("contacts_detail", 0),
                                     [vid |-> vids])
                   /\ last' = NoLast
                   /\ pc' = "contacts_detail"
              ELSE UNCHANGED <<call, last, pc>>
    /\ cur' = [cur EXCEPT !.buf = Tail(@)]
    /\ UNCHANGED <<entity, State, start_date, token_expires, now, resp, reqs,
                   out, exit, flakyCalls, env>>

\* line 242: the details came back: the loop over them starts
ContactsDetail ==
    /\ exit = "running" /\ ~call.active
    /\ pc = "contacts_detail"
    /\ loc' = [loc EXCEPT !.records = resp]
    /\ pc' = "contacts_records"
    /\ call' = NoCall
    /\ last' = NoLast
    /\ UNCHANGED <<entity, State, start_date, token_expires, now, resp, reqs,
                   out, exit, flakyCalls, env, cur>>

\* lines 243-250: one record of the detail response is written, and the
\* watermark set to its lastmodifieddate when it has one
ContactsRecord ==
    /\ exit = "running" /\ ~call.active
    /\ pc = "contacts_records"
    /\ loc.records # <<>>
    /\ State' = update_state(State, "contacts", Head(loc.records).mtime)
    /\ out' = Append(out, RecordMsg("contacts", Head(loc.records)))
    /\ loc' = [loc EXCEPT !.records = Tail(@)]
    /\ UNCHANGED <<pc, entity, start_date, token_expires, now, call, resp,
                   last, reqs, exit, flakyCalls, env, cur>>

\* line 252: the records are all written: the list of vids is emptied
ContactsDetailEnd ==
    /\ exit = "running" /\ ~call.active
    /\ pc = "contacts_records"
    /\ loc.records = <<>>
    /\ loc' = [loc EXCEPT !.vids = <<>>]
    /\ pc' = "for"
    /\ UNCHANGED <<entity, State, start_date, token_expires, now, call, resp,
                   last, reqs, out, exit, flakyCalls, env, cur>>

\* as ContactsEnd, without the state message
ContactsEndSilent ==
    /\ exit = "running" /\ ~call.active
    /\ pc = "for" /\ entity = "contacts"
    /\ cur.state = "stopped"
    /\ pc' = "return"
    /\ UNCHANGED <<entity, State, start_date, token_expires, now, call, resp,
                   last, reqs, out, exit, flakyCalls, env, cur, loc>>

\* line 254: the cursor is exhausted: singer.write_state(STATE)
ContactsEnd ==
    /\ exit = "running" /\ ~call.active
    /\ pc = "for" /\ entity = "contacts"
    /\ cur.state = "stopped"
    /\ out' = Append(out, StateMsg("contacts", State))
    /\ pc' = "return"
    /\ UNCHANGED <<entity, State, start_date, token_expires, now, call, resp,
                   last, reqs, exit, flakyCalls, env, cur, loc>>

\* n contacts, numbered in listing order: with k > 0 every k-th was
\* modified at instant 0, every 7th of the others carries no modification
\* instant, and the rest were modified at instant 2
ContactRows(n, k) ==
    [i \in 1 .. n |->
        [id |-> i,
         mtime |-> IF k > 0 /\ i % k = 0 THEN Some(0)
                   ELSE IF i % 7 = 0 THEN None ELSE Some(2)]]

\* the numbers of contacts the API may hold
ContactCounts == {n \in {0, 1, 100, 101, MaxContacts} : n <= MaxContacts}

InitContacts ==
    /\ pc = "contacts_begin"
    /\ entity = "contacts"
    /\ \E stored \in BOOLEAN :
          /\ args = [state |-> [s \in Streams |->
                        IF s = "contacts" /\ stored THEN Some(1) ELSE None]]
          /\ start_date = IF stored THEN 0 ELSE 2
    /\ State = args.state
    /\ token_expires = None
    /\ now \in Clocks
    /\ call = NoCall
    /\ resp = <<>>
    /\ last = NoLast
    /\ reqs = <<>>
    /\ out = <<>>
    /\ exit = "running"
    /\ flakyCalls = 0
    /\ \E n \in ContactCounts, k \in {0, 3} :
          api = [rows |-> ContactRows(n, k), pagelen |-> 100]
    /\ cur = NoGen
    /\ loc = <<>>

NextContacts ==
    ContactsBegin \/ ContactsSchema \/ ContactsRow \/ ContactsDetail
    \/ ContactsRecord \/ ContactsDetailEnd \/ ContactsEnd \/ GenResume \/ GenReceive \/ AttemptRefreshFails
    \/ AttemptGet

SpecContacts == InitContacts /\ [][NextContacts]_vars

----------------------------------------------------------------------------
(* The three sync functions that choose between the full and the           *)
(* incremental endpoint, each run on its own: sync_companies or sync_deals *)
(* over at most one entity, or sync_contacts over 101 contacts.            *)

InitStrategy ==
    \/ InitMaster /\ Len(api.rows) <= 1
    \/ InitContacts /\ Len(api.rows) = 101

NextStrategy ==
    MasterBegin \/ MasterSchema \/ MasterRow \/ MasterDetail \/ MasterEnd
    \/ ContactsBegin \/ ContactsSchema \/ ContactsRow \/ ContactsDetail
    \/ ContactsRecord \/ ContactsDetailEnd \/ ContactsEnd
    \/ GenResume \/ GenReceive \/ AttemptRefreshFails \/ AttemptGet

SpecStrategy == InitStrategy /\ [][NextStrategy]_vars

----------------------------------------------------------------------------
(* sync_campaigns and sync_contact_lists: a listing, with one detail       *)
(* request per campaign; every row is written; no state message.           *)

\* lines 328-333: load_schema, write_schema, the cursor is made
CampaignsBegin ==
    /\ exit = "running" /\ ~call.active
    /\ pc = "campaigns_begin"
    /\ out' = Append(out, SchemaMsg("campaigns"))
    /\ cur' = gen_request(get_url("campaigns_all", 0), [limit |-> 500],
                          Some("campaigns"), "hasMore", Single("offset"),
                          Single("offset"))
    /\ loc' = <<>>
    /\ pc' = "for"
    /\ UNCHANGED <<entity, State, start_date, token_expires, now, call, resp,
                   last, reqs, exit, flakyCalls, env>>

\* lines 333-334: the loop takes a row and asks for its detail
CampaignsRow ==
    /\ exit = "running" /\ ~call.active
    /\ pc = "for" /\ entity = "campaigns"
    /\ cur.buf # <<>>
    /\ call' = Invoke(get_url("campaigns_detail", Head(cur.buf).id), <<>>)
    /\ last' = NoLast
    /\ cur' = [cur EXCEPT !.buf = Tail(@)]
    /\ pc' = "campaigns_detail"
    /\ UNCHANGED <<entity, State, start_date, token_expires, now, resp, reqs,
                   out, exit, flakyCalls, env, loc>>

\* lines 334-336: the detail came back and is written
CampaignsDetail ==
    /\ exit = "running" /\ ~call.active
    /\ pc = "campaigns_detail"
    /\ out' = Append(out, RecordMsg("campaigns", resp))
    /\ pc' = "for"
    /\ call' = NoCall
    /\ last' = NoLast
    /\ UNCHANGED <<entity, State, start_date, token_expires, now, resp, reqs,
                   exit, flakyCalls, env, cur, loc>>

\* the cursor is exhausted: the function returns
CampaignsEnd ==
    /\ exit = "running" /\ ~call.active
    /\ pc = "for" /\ entity = "campaigns"
    /\ cur.state = "stopped"
    /\ pc' = "return"
    /\ UNCHANGED <<entity, State, start_date, token_expires, now, call, resp,
                   last, reqs, out, exit, flakyCalls, env, cur, loc>>

\* lines 373-379: load_schema, write_schema, get_start, the cursor is made
ContactListsBegin ==
    /\ exit = "running" /\ ~call.active
    /\ pc = "contact_lists_begin"
    /\ out' = Append(out, SchemaMsg("contact_lists"))
    /\ State' = SeededState("contact_lists")
    /\ loc' = [start |-> get_start("contact_lists")]
    /\ cur' = gen_request(get_url("contact_lists", 0), [count |-> 250],
                          Some("lists"), "has-more", Single("offset"),
                          Single("offset"))
    /\ pc' = "for"
    /\ UNCHANGED <<entity, start_date, token_expires, now, call, resp, last,
                   reqs, exit, flakyCalls, env>>

\* lines 379-381: one row of the listing is written
ContactListsRow ==
    /\ exit = "running" /\ ~call.active
    /\ pc = "for" /\ entity = "contact_lists"
    /\ cur.buf # <<>>
    /\ out' = Append(out, RecordMsg("contact_lists", Head(cur.buf)))
    /\ cur' = [cur EXCEPT !.buf = Tail(@)]
    /\ UNCHANGED <<pc, entity, State, start_date, token_expires, now, call,
                   resp, last, reqs, exit, flakyCalls, env, loc>>

\* the cursor is exhausted: the function returns
ContactListsEnd ==
    /\ exit = "running" /\ ~call.active
    /\ pc = "for" /\ entity = "contact_lists"
    /\ cur.state = "stopped"
    /\ pc' = "return"
    /\ UNCHANGED <<entity, State, start_date, token_expires, now, call, resp,
                   last, reqs, out, exit, flakyCalls, env, cur, loc>>

----------------------------------------------------------------------------
(* do_sync: the sync functions, called one after the other.                *)

\* as SyncOrder, with contacts synced before contact_lists
SyncOrderContactsFirst ==
    <<"subscription_changes", "email_events", "forms", "workflows",
      "keywords", "owners", "campaigns", "contacts", "contact_lists",
      "companies", "deals">>

\* lines 448-460: the calls of do_sync, in order
SyncOrder ==
    <<"subscription_changes", "email_events", "forms", "workflows",
      "keywords", "owners", "campaigns", "contact_lists", "contacts",
      "companies", "deals">>

\* the position of `stream` in the sequence `order`
Position(order, stream) ==
    CHOOSE i \in 1 .. Len(order) : order[i] = stream

\* where the sync function of `stream` starts
Entry(stream) ==
    IF stream \in ChunkedStreams THEN "chunked_begin"
    ELSE IF stream \in SimpleStreams THEN "simple_begin"
    ELSE IF stream \in MasterStreams THEN "master_begin"
    ELSE IF stream = "campaigns" THEN "campaigns_begin"
    ELSE IF stream = "contact_lists" THEN "contact_lists_begin"
    ELSE "contacts_begin"

\* the sync function that do_sync calls next: the first, or the one after
\* the function that returned
Following ==
    IF pc = "do_sync" THEN 1 ELSE Position(SyncOrder, entity) + 1

\* do_sync calls the next sync function
DoSyncCall ==
    /\ exit = "running" /\ ~call.active
    /\ pc \in {"do_sync", "return"}
    /\ Following <= Len(SyncOrder)
    /\ entity' = SyncOrder[Following]
    /\ pc' = Entry(SyncOrder[Following])
    /\ call' = NoCall
    /\ last' = NoLast
    /\ cur' = NoGen
    /\ loc' = <<>>
    /\ UNCHANGED <<State, start_date, token_expires, now, resp, reqs, out,
                   exit, flakyCalls, env>>

\* line 462: the last sync function returned: do_sync returns
DoSyncEnd ==
    /\ exit = "running" /\ ~call.active
    /\ pc = "return"
    /\ Following > Len(SyncOrder)
    /\ pc' = "done"
    /\ exit' = "done"
    /\ UNCHANGED <<entity, State, start_date, token_expires, now, call, resp,
                   last, reqs, out, flakyCalls, env, cur, loc>>

\* a first run (no watermark stored) from start_date 1 at the instant
\* MaxInstant: every endpoint but those of contacts holds the same rows,
\* modified before or after start_date, and 101 contacts are listed, all
\* of them or two in three modified after start_date; no
\* request of the run is answered by a failure that a retry would cure
InitSync ==
    /\ pc = "do_sync"
    /\ entity = ""
    /\ args = [state |-> [s \in Streams |-> None]]
    /\ State = args.state
    /\ start_date = 1
    /\ token_expires = None
    /\ now = MaxInstant
    /\ call = NoCall
    /\ resp = <<>>
    /\ last = NoLast
    /\ reqs = <<>>
    /\ out = <<>>
    /\ exit = "running"
    /\ flakyCalls = MaxFlakyCalls
    /\ \E ms \in RowLists(MaxSyncRows, {Some(0), Some(2)}), k \in {0, 3} :
          api = [rows |-> Numbered(ms), pagelen |-> 100,
                 contacts |-> ContactRows(101, k)]
    /\ cur = NoGen
    /\ loc = <<>>

NextSync ==
    DoSyncCall \/ DoSyncEnd
    \/ ChunkedBegin \/ ChunkedWindow \/ ChunkedRow \/ ChunkedWindowEnd
    \/ ChunkedEnd
    \/ SimpleBegin \/ SimpleData \/ SimpleRow \/ SimpleEnd
    \/ CampaignsBegin \/ CampaignsRow \/ CampaignsDetail \/ CampaignsEnd
    \/ ContactListsBegin \/ ContactListsRow \/ ContactListsEnd
    \/ ContactsBegin \/ ContactsSchema \/ ContactsRow \/ ContactsDetail
    \/ ContactsRecord \/ ContactsDetailEnd \/ ContactsEnd
    \/ MasterBegin \/ MasterSchema \/ MasterRow \/ MasterDetail \/ MasterEnd
    \/ GenResume \/ GenReceive \/ AttemptRefreshFails \/ AttemptGet

SpecSync == InitSync /\ [][NextSync]_vars

----------------------------------------------------------------------------
(* A bare caller of request(): some function of the program calls          *)
(* request(url) up to MaxCalls times.                                      *)

InitRequest ==
    /\ pc = "caller"
    /\ entity = ""
    /\ args = [state |-> [s \in {} |-> None]]
    /\ State = args.state
    /\ start_date = 0
    /\ token_expires = None
    /\ now = 0
    /\ call = NoCall
    /\ resp = <<>>
    /\ last = NoLast
    /\ reqs = <<>>
    /\ out = <<>>
    /\ exit = "running"
    /\ flakyCalls = 0
    /\ api = [rows |-> <<>>]
    /\ cur = <<>>
    /\ loc = [calls |-> 0]

CallerInvokes ==
    /\ exit = "running" /\ ~call.active
    /\ pc = "caller"
    /\ loc.calls < MaxCalls
    /\ call' = Invoke(get_url("owners", 0), <<>>)
    /\ loc' = [loc EXCEPT !.calls = @ + 1]
    /\ UNCHANGED <<pc, entity, State, start_date, token_expires, now, resp,
                   last, reqs, out, exit, flakyCalls, env,
                   cur>>

NextRequest == CallerInvokes \/ AttemptRefreshFails \/ AttemptGet \/ Tick

SpecRequest == InitRequest /\ [][NextRequest]_vars

----------------------------------------------------------------------------
(* Properties of request() and refresh_token().                            *)

Is4xx(status) == 400 <= status /\ status <= 499
Is5xx(status) == 500 <= status /\ status <= 599

\* C1 (as claimed): a GET answered with a status >= 500 is retried: the
\* call is still in progress after it, the process has not exited, and a
\* backoff sleep precedes the next attempt.
C1_ServerErrorIsRetried ==
    (last.sent /\ Is5xx(last.status)) =>
        (exit = "running" /\ call.active /\ call.sleeps = call.tries)

\* C2: a GET answered with a status in 400..499 is the last attempt of its
\* call and of the run (the only attempt, when it answers the first): the
\* process has exited with sys.exit(1), no attempt follows it, and once the
\* process has exited no request is sent and no message is written.
C2_ClientErrorEndsTheRun ==
    /\ [](last.sent /\ Is4xx(last.status) =>
            exit = "sys_exit" /\ ~call.active /\ call.tries = last.n)
    /\ [][exit = "sys_exit" =>
            UNCHANGED <<reqs, out, State, call, last>>]_vars

\* a 404 answered the only attempt of the caller's first call and ended
\* the run, while the caller had another call to make
C2_Witness ==
    /\ last.sent /\ last.status = 404 /\ last.n = 1
    /\ exit = "sys_exit"
    /\ pc = "caller" /\ loc.calls = 1 /\ Len(reqs) = 1

C9_NetworkFailureBounded ==
    /\ [](/\ call.tries <= 5
          /\ (call.netfails = call.tries /\ call.tries \in 1 .. 4) =>
                 (call.active /\ exit = "running")
          /\ (call.netfails = call.tries /\ call.tries = 5) =>
                 (~call.active /\ exit = "raised")
          /\ (exit = "raised" /\ call.netfails = call.tries) =>
                 call.tries = 5)
    /\ [][exit = "raised" =>
            UNCHANGED <<reqs, out, State, call, last>>]_vars

\* the fifth GET of the caller's first call ended without a response like
\* the four before it: four sleeps were taken and the run ended, while the
\* caller had another call to make
C9_Witness ==
    /\ exit = "raised" /\ call.tries = 5 /\ call.netfails = 5
    /\ call.sleeps = 4
    /\ pc = "caller" /\ loc.calls = 1 /\ Len(reqs) = 5

\* the last attempt posted a refresh exchange that failed
RefreshFailed == last.n > 0 /\ last.refreshed /\ last.refresh # 200

----------------------------------------------------------------------------
(* Properties of the single-request streams.                               *)

\* the rows of the record messages written for `stream`, in order
RecordsOf(stream, msgs) ==
    LET recs == SelectSeq(msgs, LAMBDA m :
                    m.kind = "record" /\ m.stream = stream)
    IN  [i \in 1 .. Len(recs) |-> recs[i].row]

\* the watermark the run starts from for `stream`: the stored one, or
\* start_date when none is stored
RunStart(stream) ==
    IF args.state[stream] = None THEN start_date
    ELSE Val(args.state[stream])

\* C8: when sync_owners returns, the records written are exactly the rows
\* of the response whose updatedAt is at or after the run-start watermark
\* S, in the order of the response, and the last message is a state
\* message that carries for owners the updatedAt of the last record
\* written, or S when none was written.
C8_OwnersSync ==
    (entity = "owners" /\ pc = "return") =>
        LET S == RunStart("owners")
            Due(row) == Val(row.mtime) >= S
            want == SelectSeq(api.rows, Due)
            fin == out[Len(out)]
        IN  /\ RecordsOf("owners", out) = want
            /\ fin.kind = "state"
            /\ fin.marks["owners"] =
                   IF want = <<>> THEN Some(S) ELSE want[Len(want)].mtime

\* scenario A: watermark 1, rows updated at 0, 2 and 3: the last two are
\* written and the state message carries 3
C8_Witness ==
    /\ entity = "owners" /\ pc = "return"
    /\ args.state["owners"] = Some(1)
    /\ Len(api.rows) = 3
    /\ api.rows[1].mtime = Some(0)
    /\ api.rows[2].mtime = Some(2)
    /\ api.rows[3].mtime = Some(3)
    /\ RecordsOf("owners", out) = <<api.rows[2], api.rows[3]>>
    /\ out[Len(out)].marks["owners"] = Some(3)

\* the state messages among msgs, in order
StatesOf(msgs) == SelectSeq(msgs, LAMBDA m : m.kind = "state")

\* C7 (as claimed): the watermark of a stream never decreases: no step
\* replaces a watermark by an earlier one.
C7_WatermarkNeverDecreases ==
    [][\A s \in DOMAIN State :
          State[s] # None =>
              IF State'[s] = None THEN FALSE
              ELSE Val(State'[s]) >= Val(State[s])]_vars

----------------------------------------------------------------------------
(* Properties of the checkpoints.                                          *)

\* C4 (as claimed): when the last message written is a state message, every
\* entity the API holds for the stream under sync whose modification
\* instant is at or after the run-start watermark and strictly before the
\* watermark the message carries has been written as a record.
C4_CheckpointIsSafeResumePoint ==
    (out # <<>> /\ out[Len(out)].kind = "state") =>
        LET S == RunStart(entity)
            mark == out[Len(out)].marks[entity]
            done == RecordsOf(entity, out)
            Owed(e) == IF e.mtime = None \/ mark = None THEN FALSE
                       ELSE S <= Val(e.mtime) /\ Val(e.mtime) < Val(mark)
        IN  \A i \in 1 .. Len(api.rows) :
               Owed(api.rows[i]) =>
                   \E j \in 1 .. Len(done) : done[j].id = api.rows[i].id

\* C20 (as claimed): when sync_companies or sync_deals returns after it
\* wrote a record, the last state message written carries for the stream
\* the watermark STATE holds: no advance is left without a checkpoint.
C20_FinalCheckpoint ==
    (entity \in MasterStreams /\ pc = "return"
     /\ RecordsOf(entity, out) # <<>>) =>
        LET sts == StatesOf(out) IN
            IF sts = <<>> THEN FALSE
            ELSE sts[Len(sts)].marks[entity] = State[entity]

----------------------------------------------------------------------------
(* Properties of sync_entity_chunked.                                      *)

\* the windows of the GETs sent for `stream`, one per run of GETs that carry
\* the same window
RECURSIVE Windows(_, _)
Windows(stream, rs) ==
    IF rs = <<>> THEN <<>>
    ELSE LET rest == Windows(stream, Tail(rs))
             w == [from |-> Head(rs).params.startTimestamp,
                   to |-> Head(rs).params.endTimestamp]
         IN  IF Head(rs).url.ep # stream THEN rest
             ELSE IF rest # <<>> /\ Head(rest) = w THEN rest
             ELSE <<w>> \o rest

\* C5 (as claimed): with W the run-start watermark and N the instant the
\* sync started, both in milliseconds, the windows requested are each one
\* chunk long, the first starts at W, each next starts where the one before
\* ended, none extends past N, no state message carries a watermark past
\* N, and when the sync returns the windows cover [W, N) and end at N.
C5_WindowsTile ==
    (entity \in ChunkedStreams /\ pc # "chunked_begin") =>
        LET W == RunStart(entity) * 1000
            N == now * 1000
            chunk == IF entity = "email_events" THEN 3600000 ELSE 86400000
            ws == Windows(entity, reqs)
        IN  /\ \A i \in 1 .. Len(ws) : ws[i].to - ws[i].from = chunk
            /\ ws # <<>> => ws[1].from = W
            /\ \A i \in 2 .. Len(ws) : ws[i].from = ws[i - 1].to
            /\ \A i \in 1 .. Len(ws) : ws[i].to <= N
            /\ \A i \in 1 .. Len(out) :
                   out[i].kind = "state" =>
                       Val(out[i].marks[entity]) * 1000 <= N
            /\ (pc = "return" /\ W < N) =>
                   (ws # <<>> /\ ws[Len(ws)].to = N)

\* the events the API holds inside the windows ws, window by window
RECURSIVE WindowRows(_)
WindowRows(ws) ==
    IF ws = <<>> THEN <<>>
    ELSE InWindow(api.rows, [startTimestamp |-> Head(ws).from,
                             endTimestamp |-> Head(ws).to])
         \o WindowRows(Tail(ws))

\* C19: the instant N the sync captured before the loop stays what it was
\* while the clock runs; every window requested starts before N, the k-th
\* at W plus k - 1 chunks, so at most ceil((N - W) / chunk) windows are
\* requested; with W >= N there is no GET, no state message and no change
\* of the watermark; the k-th state message follows the records of the
\* first k windows, carries the end of the k-th window and precedes the
\* GETs of the next; and the first GET of a window carries no offset.
C19_ChunkedLoop ==
    /\ [][pc # "chunked_begin" => loc'.now_ts = loc.now_ts]_vars
    /\ [](pc # "chunked_begin" =>
            LET W == RunStart(entity) * 1000
                N == loc.now_ts
                chunk == IF entity = "email_events" THEN 3600000
                         ELSE 86400000
                ws == Windows(entity, reqs)
                sts == StatesOf(out)
            IN  /\ \A k \in 1 .. Len(ws) :
                       /\ ws[k].from = W + (k - 1) * chunk
                       /\ ws[k].from < N
                /\ W >= N =>
                       (reqs = <<>> /\ sts = <<>>
                        /\ State[entity] = Some(RunStart(entity)))
                /\ Len(sts) <= Len(ws) /\ Len(ws) <= Len(sts) + 1
                /\ \A k \in 1 .. Len(sts) :
                       sts[k].marks[entity] = Some(ws[k].to \div 1000)
                /\ out[Len(out)].kind = "state" =>
                       RecordsOf(entity, out)
                           = WindowRows(SubSeq(ws, 1, Len(sts)))
                /\ pc = "return" => Len(sts) = Len(ws)
                /\ \A i \in 1 .. Len(reqs) :
                       IF i = 1 THEN "offset" \notin DOMAIN reqs[i].params
                       ELSE reqs[i].params.startTimestamp
                                # reqs[i - 1].params.startTimestamp
                            => "offset" \notin DOMAIN reqs[i].params)

\* two windows were fetched, the first in two pages, while the clock moved
\* on from the instant captured: two state messages were written, the last
\* one at the end of the output
C19_Witness ==
    /\ pc = "return"
    /\ now * 1000 > loc.now_ts
    /\ Len(Windows(entity, reqs)) = 2 /\ Len(reqs) = 3
    /\ "offset" \in DOMAIN reqs[2].params
    /\ "offset" \notin DOMAIN reqs[3].params
    /\ Len(StatesOf(out)) = 2
    /\ Len(RecordsOf(entity, out)) = 2
    /\ out[Len(out)].kind = "state"

----------------------------------------------------------------------------
(* Properties of sync_contacts.                                            *)

\* the identifiers of the listed contacts that pass the filter of the
\* listing against the run-start watermark S, in listing order
Candidates(rows, S) ==
    LET kept == SelectSeq(rows, LAMBDA row :
                    IF row.mtime = None THEN TRUE ELSE Val(row.mtime) >= S)
    IN  [i \in 1 .. Len(kept) |-> kept[i].id]

\* `vids` cut into batches of 100, the last one shorter when Len(vids) is
\* no multiple of 100
RECURSIVE Batches(_)
Batches(vids) ==
    IF vids = <<>> THEN <<>>
    ELSE IF Len(vids) <= 100 THEN <<vids>>
    ELSE <<SubSeq(vids, 1, 100)>> \o Batches(SubSeq(vids, 101, Len(vids)))

\* the vids of the GETs sent to the detail endpoint, in order
DetailCalls(rs) ==
    LET sent == SelectSeq(rs, LAMBDA r : r.url.ep = "contacts_detail")
    IN  [i \in 1 .. Len(sent) |-> sent[i].params.vid]

\* C3 (as claimed): when sync_contacts returns from a run in which no
\* request was retried, the detail endpoint was called once per batch of
\* the candidates cut into hundreds: ceil(n/100) calls, the last of
\* n mod 100 vids when that is not 0, every candidate in exactly one.
C3_DetailBatching ==
    (entity = "contacts" /\ pc = "return" /\ flakyCalls = 0) =>
        DetailCalls(reqs) = Batches(Candidates(api.rows, RunStart("contacts")))

\* C13 (as claimed): sync_contacts writes a state message after the records
\* of each detail batch, before it goes on listing: the loop never stands
\* with a record as the last message written, and when it returns from a
\* run without retries it has written as many state messages as it made
\* detail calls.
C13_StatePerBatch ==
    entity = "contacts" =>
        /\ (pc = "for" /\ out # <<>>) => out[Len(out)].kind # "record"
        /\ (pc = "return" /\ flakyCalls = 0) =>
               Len(StatesOf(out)) = Len(DetailCalls(reqs))

\* C13 (amended): sync_contacts writes no state message while it lists and
\* fetches details, and exactly one when it returns: its last message,
\* which carries the watermarks STATE holds then.
C13_StateAtEnd ==
    entity = "contacts" =>
        /\ pc # "return" => StatesOf(out) = <<>>
        /\ pc = "return" =>
               /\ Len(StatesOf(out)) = 1
               /\ out[Len(out)].kind = "state"
               /\ out[Len(out)].marks = State

\* two detail batches of 100 were fetched and their 200 records written,
\* and one state message ends the output
C13_Witness ==
    /\ entity = "contacts" /\ pc = "return" /\ flakyCalls = 0
    /\ Len(DetailCalls(reqs)) = 2
    /\ Len(RecordsOf("contacts", out)) = 200
    /\ Len(StatesOf(out)) = 1
    /\ out[Len(out)].marks["contacts"] = Some(2)

\* C17 (as claimed): for contacts, companies and deals the records written
\* are those of the listed entities that carry no modification instant or
\* one at or after the run-start watermark S: none older than S is written,
\* when the sync returns every such entity has been written, in listing
\* order, and the watermark is S or the instant of a record written.
C17_FilterEmits ==
    entity \in {"contacts", "companies", "deals"} =>
        LET S == RunStart(entity)
            recs == RecordsOf(entity, out)
        IN  /\ \A j \in 1 .. Len(recs) :
                   IF recs[j].mtime = None THEN TRUE
                   ELSE Val(recs[j].mtime) >= S
            /\ pc = "return" =>
                   [j \in 1 .. Len(recs) |-> recs[j].id]
                       = Candidates(api.rows, S)
            /\ \/ State[entity] \in {None, Some(S)}
               \/ \E j \in 1 .. Len(recs) : recs[j].mtime = State[entity]

----------------------------------------------------------------------------
(* Properties of gen_request.                                              *)

\* the number of values an offset argument stands for
Count(x) == IF x.list THEN Len(x.val) ELSE 1

\* C10: once the generator has been resumed, it has failed with the
\* ValueError exactly when its offset keys and offset targets differ in
\* number, and then no GET was sent and no token refresh was posted.
C10_OffsetMismatchFailsFirst ==
    cur.state \notin {"none", "new"} =>
        /\ cur.state = "raised" <=>
               Count(cur.offset_keys) # Count(cur.offset_targets)
        /\ cur.state = "raised" =>
               (exit = "raised" /\ reqs = <<>> /\ call.refreshes = 0
                /\ call.tries = 0)

\* a single offset key was given with two offset targets: the ValueError
\* ended the run before any request
C10_Witness ==
    /\ cur.state = "raised" /\ exit = "raised"
    /\ ~cur.offset_keys.list
    /\ cur.offset_targets = List(<<"vidOffset", "timeOffset">>)
    /\ reqs = <<>>

\* the page the generator holds carries no true continuation flag, or the
\* generator was given no path
LastPage(c) ==
    IF c.path = None THEN TRUE
    ELSE IF c.more_key \notin DOMAIN c.data THEN TRUE
    ELSE c.data[c.more_key] = FALSE

\* C11: once the generator holds a page whose continuation flag is absent
\* or false, or any response when it was given no path, it sends no further
\* GET and stops for good; it stops at such a page only; and with no path
\* it has sent exactly one GET (no attempt having been retried).
C11_CursorStops ==
    /\ [][(cur.state = "paged" /\ LastPage(cur)) =>
             (reqs' = reqs /\ ~call'.active
              /\ cur'.state \in {"paged", "stopped"})]_vars
    /\ [][cur.state = "stopped" =>
             (reqs' = reqs /\ ~call'.active /\ cur' = cur)]_vars
    /\ [](cur.state = "stopped" => (LastPage(cur) /\ cur.buf = <<>>))
    /\ []((cur.state \in {"paged", "stopped"} /\ cur.path = None
           /\ flakyCalls = 0) => Len(reqs) = 1)

\* three pages of one row were fetched, the third with a false flag: the
\* loop took the three rows and ended after three GETs
C11_Witness ==
    /\ pc = "return" /\ cur.state = "stopped" /\ cur.path # None
    /\ flakyCalls = 0 /\ Len(reqs) = 3 /\ Len(api.rows) = 3
    /\ loc.rows = api.rows
    /\ cur.data[cur.more_key] = FALSE

\* the rows of the pages the responses to rs carried under `path`, in order
RECURSIVE PageRows(_, _)
PageRows(rs, path) ==
    IF rs = <<>> THEN <<>>
    ELSE Respond(Head(rs).url, Head(rs).params)[path]
         \o PageRows(Tail(rs), path)

\* C18: with a path, while no attempt was retried, the rows yielded (taken
\* by the loop, or held for it) are the rows of the pages received, in
\* order; and the parameters of every GET after the first hold under each
\* offset target what the response before it carried under the paired
\* key, and under every other name what the first GET held.
C18_CursorAdvance ==
    (entity = "paged" /\ cur.path # None /\ exit = "running"
     /\ flakyCalls = 0) =>
        LET keys == AsList(cur.offset_keys)
            targets == AsList(cur.offset_targets)
            Targets == {targets[j] : j \in 1 .. Len(targets)}
            got == IF cur.state = "waiting" /\ ~call.active
                   THEN Len(reqs) - 1 ELSE Len(reqs)
            page(i) == Respond(reqs[i].url, reqs[i].params)
        IN  /\ loc.rows \o cur.buf
                   = PageRows(SubSeq(reqs, 1, got), Val(cur.path))
            /\ \A i \in 2 .. Len(reqs) :
                   /\ DOMAIN reqs[i].params
                          = DOMAIN reqs[1].params \cup Targets
                   /\ \A j \in 1 .. Len(targets) :
                          reqs[i].params[targets[j]] = page(i - 1)[keys[j]]
                   /\ \A name \in DOMAIN reqs[1].params \ Targets :
                          reqs[i].params[name] = reqs[1].params[name]

\* two offset pairs over three pages of one row: the third GET carries the
\* position and the time offset of the second response, and the count of
\* the first GET
C18_Witness ==
    /\ entity = "paged" /\ pc = "return" /\ flakyCalls = 0
    /\ cur.offset_targets = List(<<"vidOffset", "timeOffset">>)
    /\ cur.offset_keys = List(<<"vid-offset", "time-offset">>)
    /\ Len(reqs) = 3 /\ loc.rows = api.rows /\ Len(api.rows) = 3
    /\ reqs[3].params.vidOffset = 2
    /\ reqs[3].params.timeOffset = TimeOffset(2)
    /\ reqs[3].params.count = reqs[1].params.count

----------------------------------------------------------------------------
(* Properties of do_sync.                                                  *)

\* the streams of the messages written so far change only where a schema
\* message is written
SchemaOpensStream ==
    \A i \in 1 .. Len(out) :
        (out[i].kind = "schema") <=>
            (IF i = 1 THEN TRUE ELSE out[i - 1].stream # out[i].stream)

\* the records written for `stream` are in the order the API lists them
InApiOrder(stream) ==
    LET recs == RecordsOf(stream, out)
    IN  \A k \in 1 .. Len(recs) - 1 : recs[k].id < recs[k + 1].id

\* C12: at every point of a run the messages written so far are grouped
\* by stream, the groups in the order subscription_changes, email_events,
\* forms, workflows, keywords, owners, campaigns, contact_lists, contacts,
\* companies, deals; each group opens with its one schema message, before
\* every record and state message of the stream; the records of a stream
\* are in the order the API returned them; and when do_sync has returned
\* every one of the eleven streams has its schema message.
C12_MessageOrder ==
    LET order == <<"subscription_changes", "email_events", "forms",
                   "workflows", "keywords", "owners", "campaigns",
                   "contact_lists", "contacts", "companies", "deals">>
    IN  /\ \A i \in 1 .. Len(out) - 1 :
              Position(order, out[i].stream)
                  <= Position(order, out[i + 1].stream)
        /\ SchemaOpensStream
        /\ \A i \in 1 .. Len(order) : InApiOrder(order[i])
        /\ exit = "done" =>
              \A i \in 1 .. Len(order) :
                  Len(SelectSeq(out, LAMBDA m :
                          m = SchemaMsg(order[i]))) = 1

\* do_sync returned after it wrote two records for forms and for deals and
\* a hundred for contacts
C12_Witness ==
    /\ exit = "done"
    /\ Len(RecordsOf("forms", out)) = 2
    /\ Len(RecordsOf("contacts", out)) = 100
    /\ Len(RecordsOf("deals", out)) = 2

\* the sync function of `stream` has returned
Returned(stream) ==
    IF exit = "done" THEN TRUE
    ELSE IF pc = "do_sync" THEN FALSE
    ELSE IF entity = stream THEN pc = "return"
    ELSE Position(SyncOrder, stream) < Position(SyncOrder, entity)

\* the positions in the output of the state messages of `stream`
StatePositions(stream) ==
    {i \in 1 .. Len(out) : out[i].kind = "state" /\ out[i].stream = stream}

\* the state message at position i closes its stream: records of the
\* stream are all before it, and what follows it, if anything, is the
\* schema message of another stream
ClosesStream(i) ==
    /\ \A j \in 1 .. Len(out) :
          out[j].stream = out[i].stream /\ out[j].kind = "record" => j < i
    /\ i < Len(out) =>
          out[i + 1].kind = "schema" /\ out[i + 1].stream # out[i].stream

\* C14 (as claimed): when do_sync has returned, each of forms, workflows,
\* keywords, owners, contact_lists and campaigns has exactly one state
\* message, after its last record and before the next stream's schema.
C14_SixStreamsCheckpoint ==
    exit = "done" =>
        \A s \in {"forms", "workflows", "keywords", "owners",
                   "contact_lists", "campaigns"} :
            /\ Cardinality(StatePositions(s)) = 1
            /\ \A i \in StatePositions(s) : ClosesStream(i)

\* C14 (amended): each of forms, workflows, keywords and owners writes no
\* state message before its sync function returns and has exactly one
\* once it has returned, after the last record of the stream and before
\* the schema message of the next stream; campaigns and contact_lists
\* never write a state message.
C14_FourStreamsCheckpoint ==
    /\ \A s \in {"forms", "workflows", "keywords", "owners"} :
          /\ Cardinality(StatePositions(s)) = IF Returned(s) THEN 1 ELSE 0
          /\ \A i \in StatePositions(s) : ClosesStream(i)
    /\ \A s \in {"campaigns", "contact_lists"} : StatePositions(s) = {}

\* do_sync returned after it wrote two records for each of forms,
\* campaigns and contact_lists
C14_Witness ==
    /\ exit = "done"
    /\ Len(RecordsOf("forms", out)) = 2
    /\ Len(RecordsOf("campaigns", out)) = 2
    /\ Len(RecordsOf("contact_lists", out)) = 2

----------------------------------------------------------------------------
(* Properties of the choice between the full and the incremental endpoint. *)

\* the listing endpoint of `stream`, full or incremental
Variant(stream, full) ==
    CASE stream = "contacts" ->
             IF full THEN "contacts_all" ELSE "contacts_recent"
      [] stream = "companies" ->
             IF full THEN "companies_all" ELSE "companies_recent"
      [] stream = "deals" -> IF full THEN "deals_all" ELSE "deals_recent"

\* the whole days between the watermark the run of `stream` starts from
\* and now
DaysElapsed(stream) == (now - RunStart(stream)) \div 86400

\* C16: with d the whole days between the run-start watermark of contacts,
\* companies or deals and now, every listing request of the stream goes to
\* the '_all' endpoint when d > 30 and to the '_recent' endpoint otherwise
\* (d = 30 included), never to the other; the cursor of contacts advances
\* vid-offset -> vidOffset alone on the full endpoint and also
\* time-offset -> timeOffset on the incremental one, and so do the
\* parameters of its later page requests; the cursor chosen has as many
\* offset keys as offset targets.
C16_StrategySelection ==
    LET chosen == Variant(entity, DaysElapsed(entity) > 30)
        other == Variant(entity, ~(DaysElapsed(entity) > 30))
    IN  /\ \A i \in 1 .. Len(reqs) : reqs[i].url.ep # other
        /\ cur # NoGen =>
              /\ cur.url.ep = chosen
              /\ Len(AsList(cur.offset_keys)) = Len(AsList(cur.offset_targets))
              /\ entity = "contacts" =>
                    IF DaysElapsed(entity) > 30
                    THEN /\ AsList(cur.offset_keys) = <<"vid-offset">>
                         /\ AsList(cur.offset_targets) = <<"vidOffset">>
                    ELSE /\ AsList(cur.offset_keys)
                              = <<"vid-offset", "time-offset">>
                         /\ AsList(cur.offset_targets)
                              = <<"vidOffset", "timeOffset">>
        /\ entity = "contacts" =>
              \A i \in 1 .. Len(reqs) :
                  reqs[i].url.ep = chosen =>
                      /\ "timeOffset" \in DOMAIN reqs[i].params
                            => ~(DaysElapsed(entity) > 30)
                      /\ "vidOffset" \in DOMAIN reqs[i].params
                            /\ ~(DaysElapsed(entity) > 30)
                            => "timeOffset" \in DOMAIN reqs[i].params

\* sync_contacts, started exactly thirty whole days after its watermark,
\* asked the incremental endpoint for its second page
C16_Witness ==
    /\ entity = "contacts"
    /\ DaysElapsed(entity) = 30
    /\ \E i \in 1 .. Len(reqs) :
          /\ reqs[i].url.ep = "contacts_recent"
          /\ "timeOffset" \in DOMAIN reqs[i].params

====
